---- MODULE Spec2Model ----
(***************************************************************************)
(* A model of mat2py's Precision class (src/precision.py): the quantile    *)
(* and percentile estimator, the three unique variants, the two overlap1d  *)
(* variants, overlap2d, histc, datenum, tic and toc, and dtrange.          *)
(*                                                                         *)
(* A caller invokes one method at a time.  pc is the caller's position:    *)
(* "idle" before a call, "called" while the method runs, "done" when the    *)
(* call has handed control back.                                           *)
(* op and args record the call, ret what the call handed back: a returned  *)
(* value or a raised exception, and whether an except clause of the        *)
(* method caught an exception on the way.  gen is the generator object     *)
(* that the position variant of overlap1d hands back, and other a          *)
(* generator object of an earlier call that the caller has kept.           *)
(*                                                                         *)
(* clock is the time that time.time() returns, m_tic_start the start time  *)
(* of the stopwatch and out the line that the running call has displayed.  *)
(* Times are counted in ticks of 1 / TicksPerSecond seconds; the           *)
(* arithmetic of toc on them is exact.  rng is the generator object that   *)
(* dtrange hands back; datetimes are counted in units of the resolution    *)
(* of datetime (a microsecond) from datetime.min, the values of a delta    *)
(* dictionary in halves of that unit.                                      *)
(*                                                                         *)
(* Python floats (binary64) are modelled as binary floating-point numbers  *)
(* with a Prec-bit significand, an unbounded exponent and round to nearest *)
(* even: every arithmetic operation rounds its exact result, as IEEE 754   *)
(* does.  Python indices are 0-based and are kept 0-based in the data;     *)
(* TLA+ sequences are 1-based, so position i of a list is s[i + 1].        *)
(***************************************************************************)
EXTENDS Integers, Sequences, FiniteSets, TLC

VARIABLES pc, op, args, ret, gen, other, clock, m_tic_start, out, rng

vars == <<pc, op, args, ret, gen, other, clock, m_tic_start, out, rng>>

\* the stopwatch
timer == <<clock, m_tic_start>>

\* what the methods of the numeric group and their callers leave alone
rest == <<other, timer, out, rng>>

(***************************************************************************)
(* Bounds of the model.                                                    *)
(***************************************************************************)
\* significand width of the modelled floating point (binary64 has 53)
Prec == 6
\* list elements and samples are the numbers 0..MaxVal
MaxVal == 3
\* every list of at most MaxLen elements is an input
MaxLen == 3
\* ascending sample vectors are inputs up to this length
MaxAsc == 5
\* the quantile arguments are 0, -1 and the floats in [2^-MaxExp, 2)
MaxExp == 3
\* the percentages are 0..MaxPct
MaxPct == 100
\* the lists of unique and histc hold the elements 0..MaxElem
MaxElem == 2
\* and at most MaxList of them
MaxList == 3
\* the vectors of overlap1d and overlap2d hold the elements 0..MaxSym
MaxSym == 1
\* and at most MaxVec of them
MaxVec == 3
\* the integer arguments (n of unique, b of histc, p of prctile) are
\* -1..MaxInt
MaxInt == 2
\* the dates datenum is called with: years 0..MaxYear, months 0..MaxMonth,
\* days 0..MaxDay
MaxYear == 4
MaxMonth == 13
MaxDay == 32
\* time.time() counts in ticks of 1 / TicksPerSecond seconds
TicksPerSecond == 2
\* the times of the clock are h hours, m minutes, s seconds and a fraction
\* of a second, for h in 0..MaxHours, m in 0..MaxMinutes, s in 0..MaxSeconds
MaxHours == 1
MaxMinutes == 1
MaxSeconds == 1
\* the datetimes are datetime.min + 0..MaxDatetime units, the last of them
\* datetime.max
MaxDatetime == 4
\* the deltas are -1..MaxDelta units, in steps of half a unit
MaxDelta == 2

(***************************************************************************)
(* Floating point.  A float is <<m, e>>, the number m * 2^e, normalised:   *)
(* <<0, 0>> or 2^(Prec-1) <= |m| < 2^Prec.  Equal numbers are equal pairs. *)
(***************************************************************************)
Zero == <<0, 0>>

\* 2^Prec and 2^(Prec-1)
TwoP == 2^Prec

HalfP == 2^(Prec - 1)

RECURSIVE Scale(_, _, _)
\* n / d * 2^e (n, d > 0) rewritten so that 2^(Prec-1) <= n / d < 2^Prec
Scale(n, d, e) ==
    IF n >= d * TwoP THEN Scale(n, 2 * d, e + 1)
    ELSE IF n < d * HalfP THEN Scale(2 * n, d, e - 1)
    ELSE <<n, d, e>>

\* the float nearest to n / d * 2^e (n, d > 0), ties to the even significand
RoundPos(n, d, e) ==
    LET s == Scale(n, d, e)
        qt == s[1] \div s[2]
        r == s[1] % s[2]
        up == (2 * r > s[2]) \/ (2 * r = s[2] /\ qt % 2 = 1)
        m == IF up THEN qt + 1 ELSE qt
    IN  IF m = TwoP THEN <<HalfP, s[3] + 1>> ELSE <<m, s[3]>>

FNeg(a) == <<-a[1], a[2]>>

\* the float nearest to n / d * 2^e, d > 0
Round(n, d, e) ==
    IF n = 0 THEN Zero
    ELSE IF n > 0 THEN RoundPos(n, d, e)
    ELSE FNeg(RoundPos(-n, d, e))

MinExp(a, b) == IF a[2] <= b[2] THEN a[2] ELSE b[2]

\* the significand of a over the exponent e <= a[2]
Aligned(a, e) == a[1] * 2^(a[2] - e)

FAdd(a, b) == Round(Aligned(a, MinExp(a, b)) + Aligned(b, MinExp(a, b)), 1, MinExp(a, b))

FSub(a, b) == FAdd(a, FNeg(b))

FMul(a, b) == Round(a[1] * b[1], 1, a[2] + b[2])

\* a / b for b > 0
FDiv(a, b) == Round(a[1], b[1], a[2] - b[2])

FLess(a, b) == Aligned(a, MinExp(a, b)) < Aligned(b, MinExp(a, b))

FLeq(a, b) == ~FLess(b, a)

\* float(k) of a Python int
FromInt(k) == Round(k, 1, 0)

\* a / b of two Python ints, b > 0: true division, correctly rounded
IntDiv(a, b) == Round(a, b, 0)

\* the float f against the rational number a / b (b > 0), exactly
LeqRat(f, a, b) ==
    IF f[2] >= 0 THEN f[1] * 2^f[2] * b <= a ELSE f[1] * b <= a * 2^(-f[2])

GeqRat(f, a, b) ==
    IF f[2] >= 0 THEN f[1] * 2^f[2] * b >= a ELSE f[1] * b >= a * 2^(-f[2])

(***************************************************************************)
(* What a call hands back.                                                 *)
(***************************************************************************)
None == "None"

\* the call returned val; caught tells whether an except clause ran
Return(val) == [kind |-> "return", val |-> val, caught |-> FALSE]

Default(val) == [kind |-> "return", val |-> val, caught |-> TRUE]

Raise(exc) == [kind |-> "raise", val |-> exc, caught |-> FALSE]

\* a generator yielded val
Yield(val) == [kind |-> "yield", val |-> val, caught |-> FALSE]

NoRet == [kind |-> "none", val |-> None, caught |-> FALSE]

NoArgs == [x |-> <<>>, y |-> <<>>, n |-> 0, q |-> Zero]

\* nothing displayed
NoOut == <<>>

NoGen == [state |-> "none", v0 |-> <<>>, v1 |-> <<>>, k |-> 0]

(***************************************************************************)
(* List elements.  0..MaxVal are numbers; Str stands for an element that   *)
(* is not a number (a str such as 'A'), which compares by equality like    *)
(* any other element and which numpy cannot cast to float64.               *)
(***************************************************************************)
Numbers == 0..MaxVal

Str == MaxVal + 1

Elements == Numbers \cup {Str}

AllNumbers(x) == \A i \in 1..Len(x) : x[i] \in Numbers

\* the lists of at most n elements of S
ListsUpTo(S, n) == UNION {[1..k -> S] : k \in 0..n}

Ascending(x) == \A i \in 1..(Len(x) - 1) : x[i] <= x[i + 1]

(***************************************************************************)
(* numpy.sort, numpy.linspace and numpy.interp as quantile calls them.     *)
(***************************************************************************)
\* s is ascending: v goes after the elements that are <= v
Insert(s, v) ==
    LET k == Cardinality({i \in 1..Len(s) : s[i] <= v})
    IN  SubSeq(s, 1, k) \o <<v>> \o SubSeq(s, k + 1, Len(s))

\* the array f as a value
Array(f) == SubSeq(f, 1, Len(f))

\* the samples left as they came
sortSkipped(x) == x

RECURSIVE sort(_)
sort(x) == IF x = <<>> THEN <<>> ELSE Insert(sort(Tail(x)), Head(x))

\* numpy.linspace(start, stop, num), endpoint=True, num >= 1:
\*   step = (stop - start) / div;  y = arange(0, num) * step + start;
\*   y[-1] = stop when num > 1
linspace(start, stop, num) ==
    LET div == num - 1
        delta == FSub(stop, start)
        step == FDiv(delta, FromInt(div))
        y(k) == IF div > 0
                THEN IF step = Zero
                     THEN FAdd(FMul(FDiv(FromInt(k), FromInt(div)), delta), start)
                     ELSE FAdd(FMul(FromInt(k), step), start)
                ELSE FAdd(FMul(FromInt(k), delta), start)
    IN  Array([k \in 1..num |-> IF num > 1 /\ k = num THEN stop ELSE y(k - 1)])

RECURSIVE search(_, _, _)
\* the last j with xp[j] <= x, given xp[j] <= x
search(x, xp, j) ==
    IF j < Len(xp) /\ FLeq(xp[j + 1], x) THEN search(x, xp, j + 1) ELSE j

\* numpy.interp(x, xp, fp) for a scalar x: fp[0] left of xp[0], fp[-1] right
\* of xp[-1], fp[j] at a grid point, and between two grid points
\* slope * (x - xp[j]) + fp[j] with slope = (fp[j+1] - fp[j]) / (xp[j+1] - xp[j])
interp(x, xp, fp) ==
    IF FLess(xp[Len(xp)], x) THEN fp[Len(fp)]
    ELSE IF FLess(x, xp[1]) THEN fp[1]
    ELSE LET j == search(x, xp, 1)
         IN  IF j = Len(xp) THEN fp[j]
             ELSE IF xp[j] = x THEN fp[j]
             ELSE LET slope == FDiv(FSub(fp[j + 1], fp[j]), FSub(xp[j + 1], xp[j]))
                  IN  FAdd(FMul(slope, FSub(x, xp[j])), fp[j])

\* the samples as the float64 array numpy.interp works on
AsFloats(y) == Array([i \in 1..Len(y) |-> FromInt(y[i])])

(***************************************************************************)
(* Precision.quantile and Precision.prctile.                               *)
(***************************************************************************)
\* the naive rule: the positions i / n instead of (2 * i - 1) / (2 * n)
positionsNaive(n) == linspace(IntDiv(1, n), FromInt(1), n)

\* the plotting positions linspace(1 / (2 * n), (2 * n - 1) / (2 * n), n)
positions(n) == linspace(IntDiv(1, 2 * n), IntDiv(2 * n - 1, 2 * n), n)

\* positions(n) for the lengths of the model, computed once
Grid == Array([n \in 1..(MaxLen + MaxAsc) |-> positions(n)])

quantile(x, q) ==
    IF ~(Len(x) >= 1) THEN Raise("AssertionError")
    ELSE IF ~(q[1] >= 0) THEN Raise("AssertionError")
    ELSE IF ~AllNumbers(x) THEN Default(Zero)   \* interp raises TypeError: caught
    ELSE Return(interp(q, Grid[Len(x)], AsFloats(sort(x))))

\* the percentage passed on without the division by 100
prctileUnscaled(x, p) ==
    IF ~(Len(x) >= 1) THEN Raise("AssertionError")
    ELSE IF ~(p >= 1) THEN Raise("AssertionError")
    ELSE LET r == quantile(x, FromInt(p))
         IN  IF r.kind = "raise" THEN Default(Zero) ELSE r

prctile(x, p) ==
    IF ~(Len(x) >= 1) THEN Raise("AssertionError")
    ELSE IF ~(p >= 1) THEN Raise("AssertionError")
    ELSE LET r == quantile(x, IntDiv(p, 100))
         IN  IF r.kind = "raise" THEN Default(Zero) ELSE r

(***************************************************************************)
(* Precision.unique: the three variants that dispatch selects by type.     *)
(***************************************************************************)
Range(l) == {l[i] : i \in 1..Len(l)}

\* the position (0-based) of the first occurrence of v in l
FirstIndex(l, v) == (CHOOSE i \in 1..Len(l) : l[i] = v /\ \A j \in 1..(i - 1) : l[j] # v) - 1

RECURSIVE SetToSorted(_)
\* sorted(set(l)): the elements of S ascending
SetToSorted(S) ==
    IF S = {} THEN <<>>
    ELSE LET m == CHOOSE v \in S : \A w \in S : v <= w
         IN  <<m>> \o SetToSorted(S \ {m})

\* dict(zip(keys, itertools.count(n))): a dict is a function on its keys
ZipCount(keys, n) == [v \in Range(keys) |-> n + FirstIndex(keys, v)]

\* a list that mixes str and numbers cannot be sorted: TypeError
Sortable(l) == AllNumbers(l) \/ \A i \in 1..Len(l) : l[i] = Str

\* the keys ranked from n + 1
uniqueRankedFromOne(l, n) ==
    IF ~(Len(l) >= 1) THEN Raise("AssertionError")
    ELSE IF ~(n >= 0) THEN Raise("AssertionError")
    ELSE IF ~Sortable(l) THEN Default(None)
    ELSE Return(ZipCount(SetToSorted(Range(l)), n + 1))

\* unique(l: list, n: int)
uniqueRanked(l, n) ==
    IF ~(Len(l) >= 1) THEN Raise("AssertionError")
    ELSE IF ~(n >= 0) THEN Raise("AssertionError")
    ELSE IF ~Sortable(l) THEN Default(None)     \* sorted raises TypeError: caught
    ELSE Return(ZipCount(SetToSorted(Range(l)), n))

RECURSIVE reduce(_, _)
\* reduce(lambda y, x: y.append(x) or y if x not in y else y, l, y)
reduce(y, l) ==
    IF l = <<>> THEN y
    ELSE reduce(IF Head(l) \notin Range(y) THEN Append(y, Head(l)) ELSE y, Tail(l))

RECURSIVE reduceKeepLast(_, _)
\* an element seen again moves to the end
reduceKeepLast(y, l) ==
    IF l = <<>> THEN y
    ELSE reduceKeepLast(
            Append(SelectSeq(y, LAMBDA v : v # Head(l)), Head(l)), Tail(l))

\* unique(l: list) with the last occurrence kept
uniqueListKeepLast(l) ==
    IF ~(Len(l) >= 1) THEN Raise("AssertionError")
    ELSE Return(reduceKeepLast(<<>>, l))

\* unique(l: list)
uniqueList(l) ==
    IF ~(Len(l) >= 1) THEN Raise("AssertionError")
    ELSE Return(reduce(<<>>, l))

\* numpy.unique(l, return_index=True, return_counts=True,
\* return_inverse=True) returns, in this order, the distinct values
\* ascending, the index of the first occurrence of each, the index of each
\* element of l among the distinct values, and the count of each
npUnique(l) ==
    LET u == SetToSorted(Range(l))
    IN  << u,
           [k \in 1..Len(u) |-> FirstIndex(l, u[k])],
           [i \in 1..Len(l) |-> FirstIndex(u, l[i])],
           [k \in 1..Len(u) |-> Cardinality({i \in 1..Len(l) : l[i] = u[k]})] >>

\* unique(l: numpy.ndarray): a, b, c, d = numpy.unique(...); the four
\* arrays stacked when a.size > 1, and a with three zeros otherwise (the
\* 0-dimensional arrays of the code are written as they flatten, <<0>>)
uniqueArray(l) ==
    IF ~(Len(l) >= 1) THEN Raise("AssertionError")
    ELSE LET r == npUnique(l)
             a == r[1]
             b == r[2]
             c == r[3]
             d == r[4]
         IN  IF Len(a) > 1 THEN Return(<<a, b, c, d>>)
             ELSE Return(<<a, <<0>>, <<0>>, <<0>>>>)

(***************************************************************************)
(* Precision.overlap1d, both variants, and Precision.overlap2d.            *)
(***************************************************************************)
RECURSIVE overlapLoop(_, _, _, _)
\* for i, j in enumerate(zip(v0, v1)): if v0[i] == v1[i]: r.append([i, j])
overlapLoop(v0, v1, i, r) ==
    IF i > Len(v0) \/ i > Len(v1) THEN r
    ELSE overlapLoop(v0, v1, i + 1,
            IF v0[i] = v1[i] THEN Append(r, <<i - 1, <<v0[i], v1[i]>>>>) ELSE r)

RECURSIVE overlapLoopBreak(_, _, _, _)
\* the loop left at the first match
overlapLoopBreak(v0, v1, i, r) ==
    IF i > Len(v0) \/ i > Len(v1) THEN r
    ELSE IF v0[i] = v1[i] THEN Append(r, <<i - 1, <<v0[i], v1[i]>>>>)
    ELSE overlapLoopBreak(v0, v1, i + 1, r)

\* overlap1d(v0: list, v1: list) with the loop left at the first match
overlap1dFirstMatch(v0, v1) ==
    IF ~(Len(v0) >= 1) THEN Raise("AssertionError")
    ELSE IF ~(Len(v1) >= 1) THEN Raise("AssertionError")
    ELSE IF ~(Len(v0) = Len(v1)) THEN Raise("AssertionError")
    ELSE Return(overlapLoopBreak(v0, v1, 1, <<>>))

\* overlap1d(v0: list, v1: list)
overlap1d(v0, v1) ==
    IF ~(Len(v0) >= 1) THEN Raise("AssertionError")
    ELSE IF ~(Len(v1) >= 1) THEN Raise("AssertionError")
    ELSE IF ~(Len(v0) = Len(v1)) THEN Raise("AssertionError")
    ELSE Return(overlapLoop(v0, v1, 1, <<>>))

\* the comprehension left at the first position found
FirstPositionOf(i, v1) ==
    LET idx == [p \in 1..Len(v1) |-> p - 1]
        all == SelectSeq(idx, LAMBDA p : v1[p + 1] = i)
    IN  IF all = <<>> THEN <<>> ELSE <<Head(all)>>

\* [p for p, j in enumerate(v1) if i == j]
PositionsOf(i, v1) ==
    LET idx == [p \in 1..Len(v1) |-> p - 1]
    IN  SelectSeq(idx, LAMBDA p : v1[p + 1] = i)

\* overlap1d(v0: list, v1: list, n: int) is a generator function: the call
\* runs nothing of the body and hands back a generator object
overlap1dGen(v0, v1) == [state |-> "created", v0 |-> v0, v1 |-> v1, k |-> 0]

\* next(g): the body runs from where it was suspended (from the asserts at
\* the first next) to the next yield or to its end
genNext(g) ==
    IF g.state = "created" /\
        ~(Len(g.v0) >= 1 /\ Len(g.v1) >= 1 /\ Len(g.v0) = Len(g.v1))
    THEN [ret |-> Raise("AssertionError"), gen |-> [g EXCEPT !.state = "finished"]]
    ELSE IF g.k < Len(g.v0)
    THEN [ret |-> Yield(PositionsOf(g.v0[g.k + 1], g.v1)),
          gen |-> [g EXCEPT !.state = "suspended", !.k = g.k + 1]]
    ELSE [ret |-> Raise("StopIteration"), gen |-> [g EXCEPT !.state = "finished"]]

\* v[idx] for an index array idx
Take(v, idx) == [k \in 1..Len(idx) |-> v[idx[k] + 1]]

\* numpy.argsort(v): a permutation of the indices that sorts v; the order
\* of equal values is not specified by the default kind (quicksort), so
\* every sorting permutation is a possible result
ArgSorts(v) ==
    {p \in [1..Len(v) -> 0..(Len(v) - 1)] :
        /\ \A i, j \in 1..Len(v) : p[i] = p[j] => i = j
        /\ Ascending(Take(v, p))}

\* a.searchsorted(v, side): the values of a that are < v (left), <= v (right)
searchsorted(a, v, side) ==
    IF side = "left" THEN Cardinality({i \in 1..Len(a) : a[i] < v})
    ELSE Cardinality({i \in 1..Len(a) : a[i] <= v})

\* mask.nonzero()[0]
nonzero(mask) ==
    LET idx == [p \in 1..Len(mask) |-> p - 1]
    IN  SelectSeq(idx, LAMBDA p : mask[p + 1])

\* overlap2d with the two index arrays returned for the wrong vectors
overlap2dCrossed(v0, v1, a1, b1) ==
    LET s0 == Take(v0, a1)
        s1 == Take(v1, b1)
        inds_b == nonzero([k \in 1..Len(s1) |->
                    searchsorted(s0, s1[k], "right") - searchsorted(s0, s1[k], "left") > 0])
        inds_a == nonzero([k \in 1..Len(s0) |->
                    searchsorted(s1, s0[k], "right") - searchsorted(s1, s0[k], "left") > 0])
    IN  Return(<<Take(b1, inds_b), Take(a1, inds_a)>>)

\* overlap2d(v0, v1) with a1 = numpy.argsort(v0), b1 = numpy.argsort(v1)
overlap2d(v0, v1, a1, b1) ==
    LET s0 == Take(v0, a1)
        s1 == Take(v1, b1)
        sort_left_a == [k \in 1..Len(s1) |-> searchsorted(s0, s1[k], "left")]
        sort_right_a == [k \in 1..Len(s1) |-> searchsorted(s0, s1[k], "right")]
        sort_left_b == [k \in 1..Len(s0) |-> searchsorted(s1, s0[k], "left")]
        sort_right_b == [k \in 1..Len(s0) |-> searchsorted(s1, s0[k], "right")]
        inds_b == nonzero([k \in 1..Len(s1) |-> sort_right_a[k] - sort_left_a[k] > 0])
        inds_a == nonzero([k \in 1..Len(s0) |-> sort_right_b[k] - sort_left_b[k] > 0])
    IN  Return(<<Take(a1, inds_a), Take(b1, inds_b)>>)

(***************************************************************************)
(* Precision.histc: numpy.histogram(l, b) for an integer bin count b.      *)
(***************************************************************************)
amin(l) == CHOOSE v \in Range(l) : \A w \in Range(l) : v <= w

amax(l) == CHOOSE v \in Range(l) : \A w \in Range(l) : v >= w

Half == IntDiv(1, 2)

\* int(f) for a float f >= 0
Floor(f) == IF f[2] >= 0 THEN f[1] * 2^f[2] ELSE f[1] \div 2^(-f[2])

\* the bin of x among n equal bins with the edges e: the index computed in
\* floating point, then moved back into its bin by at most one
BinOf(x, first, last, n, e) ==
    LET f == FMul(FDiv(FSub(x, first), FSub(last, first)), FromInt(n))
        i0 == Floor(f)
        i1 == IF i0 = n THEN i0 - 1 ELSE i0
        i2 == IF FLess(x, e[i1 + 1]) THEN i1 - 1 ELSE i1
    IN  IF FLeq(e[i2 + 2], x) /\ i2 # n - 1 THEN i2 + 1 ELSE i2

\* numpy.histogram(l, n) for n >= 1: the range is amin..amax, widened by
\* 0.5 on both sides when empty; n + 1 edges by linspace; the counts
histogram(l, n) ==
    LET lo == FromInt(amin(l))
        hi == FromInt(amax(l))
        first == IF lo = hi THEN FSub(lo, Half) ELSE lo
        last == IF lo = hi THEN FAdd(hi, Half) ELSE hi
        e == linspace(first, last, n + 1)
        bins == [i \in 1..Len(l) |-> BinOf(FromInt(l[i]), first, last, n, e)]
    IN  << [k \in 1..n |-> Cardinality({i \in 1..Len(l) : bins[i] = k - 1})], e >>

histc(l, b) ==
    IF ~(Len(l) >= 1) THEN Raise("AssertionError")
    ELSE IF ~(b >= 0) THEN Raise("AssertionError")
    ELSE IF b < 1 THEN Default(None)   \* numpy.histogram raises ValueError: caught
    ELSE Return(histogram(l, b))

(***************************************************************************)
(* Precision.datenum (int, int, int) and (datetime.date).                  *)
(***************************************************************************)
MINYEAR == 1

MAXYEAR == 9999

DatenumOffset == 366

IsLeap(y) == y % 4 = 0 /\ (y % 100 # 0 \/ y % 400 = 0)

DaysInMonth(y, m) ==
    IF m = 2 THEN (IF IsLeap(y) THEN 29 ELSE 28)
    ELSE IF m \in {4, 6, 9, 11} THEN 30 ELSE 31

\* datetime.date(y, m, d) raises ValueError for any other arguments
ValidDate(y, m, d) ==
    /\ MINYEAR <= y /\ y <= MAXYEAR
    /\ 1 <= m /\ m <= 12
    /\ 1 <= d /\ d <= DaysInMonth(y, m)

RECURSIVE DaysBeforeMonth(_, _)
DaysBeforeMonth(y, m) ==
    IF m = 1 THEN 0 ELSE DaysBeforeMonth(y, m - 1) + DaysInMonth(y, m - 1)

DaysBeforeYear(y) ==
    (y - 1) * 365 + (y - 1) \div 4 - (y - 1) \div 100 + (y - 1) \div 400

\* datetime.date.toordinal: 1 for 0001-01-01
toordinal(y, m, d) == DaysBeforeYear(y) + DaysBeforeMonth(y, m) + d

\* datenum(d: datetime.date)
datenumDate(y, m, d) == Return(toordinal(y, m, d) + DatenumOffset)

\* datenum(y: int, m: int, d: int)
datenum(y, m, d) ==
    IF ~ValidDate(y, m, d) THEN Default(0)   \* datetime.date raises ValueError: caught
    ELSE datenumDate(y, m, d)

(***************************************************************************)
(* Precision.dtrange, a generator function.                                *)
(***************************************************************************)
\* delta is the delta as the caller passed it, td the timedelta made of it
NoRange == [state |-> "none", current |-> 0, end |-> 0, delta |-> 0, td |-> 0]

\* datetime.timedelta(**delta) for a dictionary whose values add up to
\* halves / 2 units: rounded to a whole number of units, halves to even
timedelta(halves) ==
    LET q == halves \div 2
    IN  IF halves % 2 = 0 THEN q
        ELSE IF q % 2 = 0 THEN q ELSE q + 1

\* dtrange(start, end, delta): the call runs nothing of the body and hands
\* back a generator object
dtrange(start, end, delta) ==
    [state |-> "created", current |-> start, end |-> end, delta |-> delta, td |-> 0]

\* the generator ended by an exception that its except clause caught
Ended == [kind |-> "raise", val |-> "StopIteration", caught |-> TRUE]

\* next(g): at the first next the delta is converted and the loop entered;
\* at a later one current += delta runs first, and raises OverflowError
\* (caught) outside datetime.min..datetime.max
rangeNext(g) ==
    LET td == IF g.state = "created" THEN timedelta(g.delta) ELSE g.td
        current == IF g.state = "created" THEN g.current ELSE g.current + td
    IN  IF current < 0 \/ current > MaxDatetime
        THEN [ret |-> Ended, gen |-> [g EXCEPT !.state = "finished", !.td = td]]
        ELSE IF current < g.end
        THEN [ret |-> Yield(current),
              gen |-> [g EXCEPT !.state = "suspended", !.current = current, !.td = td]]
        ELSE [ret |-> Raise("StopIteration"),
              gen |-> [g EXCEPT !.state = "finished", !.current = current, !.td = td]]

(***************************************************************************)
(* Precision.tic and Precision.toc.                                        *)
(***************************************************************************)
SecondsPerHour == 3600

SecondsPerMinute == 60

\* ': > Elapsed time is %d:%d:%d {}.' % (hours, minutes, seconds) with s
\* for {}; %d cuts the fraction of the seconds off
Elapsed(hours, minutes, seconds, s) == <<hours, minutes, seconds \div TicksPerSecond, s>>

\* toc with end = time.time(): the line displayed, or UnboundLocalError
\* where "else s" reads the local s that nothing has assigned yet
toc(start, end) ==
    LET tmp0 == end - start
        hours == tmp0 \div (SecondsPerHour * TicksPerSecond)
        tmp == tmp0 - SecondsPerHour * TicksPerSecond * hours
        minutes == tmp \div (SecondsPerMinute * TicksPerSecond)
        seconds == tmp - SecondsPerMinute * TicksPerSecond * minutes
        s0 == "secounds"
        s1 == IF minutes > 0 THEN "minutes" ELSE s0
        s2 == IF hours > 0 THEN "hours" ELSE s1
    IN  IF ~(seconds > 0) THEN [ret |-> Raise("UnboundLocalError"), out |-> NoOut]
        ELSE [ret |-> Return(None), out |-> Elapsed(hours, minutes, seconds, s2)]

(***************************************************************************)
(* The caller: one call at a time, then back to idle.                      *)
(***************************************************************************)
Init ==
    /\ pc = "idle"
    /\ op = "none"
    /\ args = NoArgs
    /\ ret = NoRet
    /\ gen = NoGen
    /\ other = NoGen
    /\ clock = 0
    /\ m_tic_start = 0     \* __init__: self.__m_tic_start = time.time()
    /\ out = NoOut
    /\ rng = NoRange

\* the caller is between two calls and holds no generator
Idle ==
    /\ pc = "idle"
    /\ gen.state = "none"
    /\ other.state = "none"
    /\ rng.state = "none"

\* the caller calls o with the arguments a
Call(o, a) ==
    /\ Idle
    /\ pc' = "called"
    /\ op' = o
    /\ args' = a
    /\ UNCHANGED <<ret, gen, rest>>

\* the body of o runs and hands back r
Run(o, r) ==
    /\ pc = "called"
    /\ op = o
    /\ pc' = "done"
    /\ ret' = r
    /\ UNCHANGED <<op, args, gen, rest>>

\* the caller takes what the call handed back
Back ==
    /\ pc = "done"
    /\ pc' = "idle"
    /\ op' = "none"
    /\ args' = NoArgs
    /\ ret' = NoRet
    /\ out' = NoOut
    /\ UNCHANGED <<gen, other, timer, rng>>

\* quantile(x, q) is called for a pair <<x, q>> of In
CallQuantile(In) ==
    /\ Idle
    /\ \E in \in In : Call("quantile", [NoArgs EXCEPT !.x = in[1], !.q = in[2]])

RunQuantile == Run("quantile", quantile(args.x, args.q))

\* prctile(x, p) is called for a pair <<x, p>> of In
CallPrctile(In) ==
    /\ Idle
    /\ \E in \in In : Call("prctile", [NoArgs EXCEPT !.x = in[1], !.n = in[2]])

RunPrctile == Run("prctile", prctile(args.x, args.n))

\* unique(l, n) is called for a pair <<l, n>> of In
CallUniqueRanked(In) ==
    /\ Idle
    /\ \E in \in In : Call("unique_ranked", [NoArgs EXCEPT !.x = in[1], !.n = in[2]])

RunUniqueRanked == Run("unique_ranked", uniqueRanked(args.x, args.n))

\* unique(l) is called for a list l of In
CallUniqueList(In) ==
    /\ Idle
    /\ \E l \in In : Call("unique_list", [NoArgs EXCEPT !.x = l])

RunUniqueList == Run("unique_list", uniqueList(args.x))

\* unique(l) is called for an array l of In
CallUniqueArray(In) ==
    /\ Idle
    /\ \E l \in In : Call("unique_array", [NoArgs EXCEPT !.x = l])

RunUniqueArray == Run("unique_array", uniqueArray(args.x))

\* overlap1d(v0, v1) is called for a pair <<v0, v1>> of In
CallOverlap1d(In) ==
    /\ Idle
    /\ \E in \in In : Call("overlap1d", [NoArgs EXCEPT !.x = in[1], !.y = in[2]])

RunOverlap1d == Run("overlap1d", overlap1d(args.x, args.y))

\* overlap1d(v0, v1, 0) is called for a pair <<v0, v1>> of In
CallOverlap1dGen(In) ==
    /\ Idle
    /\ \E in \in In : Call("overlap1d_gen", [NoArgs EXCEPT !.x = in[1], !.y = in[2]])

\* the call hands back the generator object
RunOverlap1dGen ==
    /\ pc = "called"
    /\ op = "overlap1d_gen"
    /\ pc' = "done"
    /\ ret' = Return("generator")
    /\ gen' = overlap1dGen(args.x, args.y)
    /\ UNCHANGED <<op, args, rest>>

\* the caller asks the generator for its next element
GenNext ==
    /\ pc = "idle"
    /\ gen.state \in {"created", "suspended"}
    /\ pc' = "done"
    /\ op' = "next"
    /\ args' = NoArgs
    /\ ret' = genNext(gen).ret
    /\ gen' = genNext(gen).gen
    /\ UNCHANGED rest

\* the caller lets go of the generator
GenDrop ==
    /\ pc = "idle"
    /\ gen.state # "none"
    /\ gen' = NoGen
    /\ UNCHANGED <<pc, op, args, ret, rest>>

\* the caller keeps the generator and calls overlap1d(v0, v1, 0) again with
\* the same two lists
CallOverlap1dGenAgain ==
    /\ pc = "idle"
    /\ gen.state # "none"
    /\ other.state = "none"
    /\ pc' = "called"
    /\ op' = "overlap1d_gen"
    /\ args' = [NoArgs EXCEPT !.x = gen.v0, !.y = gen.v1]
    /\ other' = gen
    /\ gen' = NoGen
    /\ UNCHANGED <<ret, timer, out, rng>>

\* the caller turns to the generator it has kept
GenSwap ==
    /\ pc = "idle"
    /\ other.state # "none"
    /\ gen' = other
    /\ other' = gen
    /\ UNCHANGED <<pc, op, args, ret, timer, out, rng>>

\* overlap2d(v0, v1) is called for a pair <<v0, v1>> of In
CallOverlap2d(In) ==
    /\ Idle
    /\ \E in \in In : Call("overlap2d", [NoArgs EXCEPT !.x = in[1], !.y = in[2]])

RunOverlap2d ==
    /\ pc = "called"
    /\ op = "overlap2d"
    /\ \E a1 \in ArgSorts(args.x), b1 \in ArgSorts(args.y) :
        Run("overlap2d", overlap2d(args.x, args.y, a1, b1))

\* histc(l, b) is called for a pair <<l, b>> of In
CallHistc(In) ==
    /\ Idle
    /\ \E in \in In : Call("histc", [NoArgs EXCEPT !.x = in[1], !.n = in[2]])

RunHistc == Run("histc", histc(args.x, args.n))

\* datenum(y, m, d) is called for a triple <<y, m, d>> of In
CallDatenum(In) ==
    /\ Idle
    /\ \E in \in In : Call("datenum", [NoArgs EXCEPT !.x = in])

RunDatenum == Run("datenum", datenum(args.x[1], args.x[2], args.x[3]))

\* the times the clock shows
Times ==
    {((h * SecondsPerHour + m * SecondsPerMinute + sec) * TicksPerSecond) + f :
        h \in 0..MaxHours, m \in 0..MaxMinutes, sec \in 0..MaxSeconds,
        f \in 0..(TicksPerSecond - 1)}

\* time passes between two calls
Tick ==
    /\ pc = "idle"
    /\ \E t \in Times : t > clock /\ clock' = t
    /\ UNCHANGED <<pc, op, args, ret, gen, other, m_tic_start, out, rng>>

CallTic == Call("tic", NoArgs)

\* self.__m_tic_start = time.time()
RunTic ==
    /\ pc = "called"
    /\ op = "tic"
    /\ pc' = "done"
    /\ m_tic_start' = clock
    /\ ret' = Return(None)
    /\ UNCHANGED <<op, args, gen, other, clock, out, rng>>

CallToc == Call("toc", NoArgs)

RunToc ==
    /\ pc = "called"
    /\ op = "toc"
    /\ pc' = "done"
    /\ ret' = toc(m_tic_start, clock).ret
    /\ out' = toc(m_tic_start, clock).out
    /\ UNCHANGED <<op, args, gen, other, timer, rng>>

\* dtrange(start, end, delta) is called for a triple <<start, end, delta>>
\* of In
CallDtrange(In) ==
    /\ Idle
    /\ \E in \in In : Call("dtrange", [NoArgs EXCEPT !.x = in])

\* the call hands back the generator object
RunDtrange ==
    /\ pc = "called"
    /\ op = "dtrange"
    /\ pc' = "done"
    /\ ret' = Return("generator")
    /\ rng' = dtrange(args.x[1], args.x[2], args.x[3])
    /\ UNCHANGED <<op, args, gen, other, timer, out>>

\* the caller asks the generator of dtrange for its next element
RangeNext ==
    /\ pc = "idle"
    /\ rng.state \in {"created", "suspended"}
    /\ pc' = "done"
    /\ op' = "dtrange_next"
    /\ args' = NoArgs
    /\ ret' = rangeNext(rng).ret
    /\ rng' = rangeNext(rng).gen
    /\ UNCHANGED <<gen, other, timer, out>>

\* the caller lets go of the generator of dtrange
RangeDrop ==
    /\ pc = "idle"
    /\ rng.state # "none"
    /\ rng' = NoRange
    /\ UNCHANGED <<pc, op, args, ret, gen, other, timer, out>>

(***************************************************************************)
(* SpecQ: quantile and prctile over every sample vector of at most MaxLen  *)
(* numbers, every float of QArgs and every percentage of 0..MaxPct.        *)
(***************************************************************************)
One == FromInt(1)

Floats ==
    {<<m, e>> : m \in HalfP..(TwoP - 1), e \in (1 - Prec - MaxExp)..(1 - Prec)}

QArgs == Floats \cup {Zero, FNeg(One), FromInt(2), FromInt(3)}

Samples == ListsUpTo(Numbers, MaxLen)

NextQ ==
    \/ CallQuantile(Samples \X QArgs)
    \/ RunQuantile
    \/ CallPrctile(Samples \X (0..MaxPct))
    \/ RunPrctile
    \/ Back

SpecQ == Init /\ [][NextQ]_vars

(***************************************************************************)
(* SpecPlot: quantile of the ascending sample vectors of at most MaxAsc    *)
(* numbers at their plotting positions, both as the caller computes them,  *)
(* (2 * i - 1) / (2 * n), and as quantile computes them, with linspace.    *)
(***************************************************************************)
AscSamples == {x \in ListsUpTo(Numbers, MaxAsc) : Ascending(x)}

PlotArgs(x) ==
    {IntDiv(2 * i - 1, 2 * Len(x)) : i \in 1..Len(x)}
        \cup {positions(Len(x))[i] : i \in 1..Len(x)}

PlotInputs == UNION {{<<x, q>> : q \in PlotArgs(x)} : x \in AscSamples}

NextPlot ==
    \/ CallQuantile(PlotInputs)
    \/ RunQuantile
    \/ Back

SpecPlot == Init /\ [][NextPlot]_vars

(***************************************************************************)
(* Spec: every method, over the lists of at most MaxList elements of       *)
(* 0..MaxElem and the pairs of vectors of at most MaxVec elements of       *)
(* 0..MaxSym.                                                              *)
(***************************************************************************)
Lists == ListsUpTo(0..MaxElem, MaxList)

\* lists that may hold a str
MixedLists == ListsUpTo((0..MaxElem) \cup {Str}, MaxList)

\* a few quantile arguments: 0, -1, 1/2 and 1
SomeQArgs == {Zero, FNeg(One), IntDiv(1, 2), One}

Dates == (0..MaxYear) \X (0..MaxMonth) \X (0..MaxDay)

\* the pairs of vectors overlap1d and overlap2d are called with
Vectors == ListsUpTo(0..MaxSym, MaxVec)

VectorPairs == Vectors \X Vectors

Next ==
    \/ CallQuantile(MixedLists \X SomeQArgs)
    \/ RunQuantile
    \/ CallPrctile(MixedLists \X (-1..MaxInt))
    \/ RunPrctile
    \/ CallDatenum(Dates)
    \/ RunDatenum
    \/ CallUniqueRanked(MixedLists \X (-1..MaxInt))
    \/ RunUniqueRanked
    \/ CallUniqueList(MixedLists)
    \/ RunUniqueList
    \/ CallUniqueArray(Lists)
    \/ RunUniqueArray
    \/ CallHistc(Lists \X (-1..MaxInt))
    \/ RunHistc
    \/ CallOverlap1d(VectorPairs)
    \/ RunOverlap1d
    \/ CallOverlap1dGen(VectorPairs)
    \/ RunOverlap1dGen
    \/ GenNext
    \/ GenDrop
    \/ CallOverlap2d(VectorPairs)
    \/ RunOverlap2d
    \/ Back

Spec == Init /\ [][Next]_vars

(***************************************************************************)
(* SpecGen: the position variant of overlap1d, with up to two generator    *)
(* objects of the same two lists alive at a time.                          *)
(***************************************************************************)
NextGen ==
    \/ CallOverlap1dGen(VectorPairs)
    \/ CallOverlap1dGenAgain
    \/ RunOverlap1dGen
    \/ GenNext
    \/ GenSwap
    \/ GenDrop
    \/ Back

SpecGen == Init /\ [][NextGen]_vars

(***************************************************************************)
(* SpecTimer: tic and toc while time passes.                               *)
(***************************************************************************)
NextTimer ==
    \/ Tick
    \/ CallTic
    \/ RunTic
    \/ CallToc
    \/ RunToc
    \/ Back

SpecTimer == Init /\ [][NextTimer]_vars

(***************************************************************************)
(* SpecRange: dtrange over the datetimes datetime.min + 0..MaxDatetime and *)
(* the deltas of -1 to MaxDelta units in steps of half a unit.             *)
(***************************************************************************)
Datetimes == 0..MaxDatetime

Deltas == (-2)..(2 * MaxDelta)

NextRange ==
    \/ CallDtrange(Datetimes \X Datetimes \X Deltas)
    \/ RunDtrange
    \/ RangeNext
    \/ RangeDrop
    \/ Back

SpecRange == Init /\ [][NextRange]_vars

(***************************************************************************)
(* Claims about quantile and prctile.                                      *)
(***************************************************************************)
Smallest(x) == CHOOSE v \in {x[i] : i \in 1..Len(x)} : \A i \in 1..Len(x) : v <= x[i]

Largest(x) == CHOOSE v \in {x[i] : i \in 1..Len(x)} : \A i \in 1..Len(x) : v >= x[i]

\* a finished call of quantile on a non-empty vector of numbers with q >= 0
QuantileDone ==
    /\ pc = "done"
    /\ op = "quantile"
    /\ Len(args.x) >= 1
    /\ AllNumbers(args.x)
    /\ args.q[1] >= 0

\* the i-th plotting position as numpy.linspace computes it in quantile
GridPoint(n, i) == linspace(IntDiv(1, 2 * n), IntDiv(2 * n - 1, 2 * n), n)[i]

\* C1 as stated: for an ascending vector v of length n and every i in 1..n,
\* quantile(v, (2i-1)/(2n)) returns exactly v[i].
PlottingPositionsRecovered ==
    (QuantileDone /\ Ascending(args.x)) =>
        \A i \in 1..Len(args.x) :
            args.q = IntDiv(2 * i - 1, 2 * Len(args.x))
                => ret = Return(FromInt(args.x[i]))

\* C1 as amended: quantile(v, q) returns exactly v[i] when q is the i-th
\* plotting position as linspace computes it, and when q = (2i-1)/(2n) for
\* i = 1 and i = n (the two positions linspace does not recompute).
GridPointsRecovered ==
    (QuantileDone /\ Ascending(args.x)) =>
        \A i \in 1..Len(args.x) :
            (\/ args.q = GridPoint(Len(args.x), i)
             \/ /\ i \in {1, Len(args.x)}
                /\ args.q = IntDiv(2 * i - 1, 2 * Len(args.x)))
                => ret = Return(FromInt(args.x[i]))

\* C1 witness: an inner grid point that differs from (2i-1)/(2n), between
\* two different neighbours, was asked for and v[i] came back
GridPointAsked ==
    /\ QuantileDone
    /\ \E i \in 2..(Len(args.x) - 1) :
        /\ args.q = GridPoint(Len(args.x), i)
        /\ args.q # IntDiv(2 * i - 1, 2 * Len(args.x))
        /\ args.x[i - 1] < args.x[i]
        /\ args.x[i] < args.x[i + 1]
        /\ ret = Return(FromInt(args.x[i]))

\* C2: for a non-empty vector x and 1 <= p <= 100, prctile(x, p) returns
\* the value quantile(x, p/100) returns.
PrctileIsQuantile ==
    (/\ pc = "done"
     /\ op = "prctile"
     /\ Len(args.x) >= 1
     /\ AllNumbers(args.x)
     /\ args.n \in 1..100)
        => /\ ret.kind = "return"
           /\ ret = quantile(args.x, IntDiv(args.n, 100))

\* C2 witness: a percentile that falls between two different samples
PrctileInterpolated ==
    /\ pc = "done"
    /\ op = "prctile"
    /\ args.n \in 1..100
    /\ ret.kind = "return"
    /\ ~ret.caught
    /\ \E i \in 1..Len(args.x) : FLess(FromInt(args.x[i]), ret.val)
    /\ \E i \in 1..Len(args.x) : FLess(ret.val, FromInt(args.x[i]))

\* C10 as stated: for q >= 0 quantile returns the smallest sample when
\* q <= 1/(2n), the largest when q >= (2n-1)/(2n), also for q > 1, and the
\* result always lies between the smallest and the largest sample.
FlatExtrapolationBounded ==
    QuantileDone =>
        /\ ret.kind = "return"
        /\ LeqRat(args.q, 1, 2 * Len(args.x))
            => ret.val = FromInt(Smallest(args.x))
        /\ GeqRat(args.q, 2 * Len(args.x) - 1, 2 * Len(args.x))
            => ret.val = FromInt(Largest(args.x))
        /\ FLeq(FromInt(Smallest(args.x)), ret.val)
        /\ FLeq(ret.val, FromInt(Largest(args.x)))

\* C10 as amended: for q >= 0 quantile returns the smallest sample when
\* q <= 1/(2n), the largest when q >= (2n-1)/(2n), also for q > 1, and the
\* result is never below the smallest sample.
FlatExtrapolation ==
    QuantileDone =>
        /\ ret.kind = "return"
        /\ LeqRat(args.q, 1, 2 * Len(args.x))
            => ret.val = FromInt(Smallest(args.x))
        /\ GeqRat(args.q, 2 * Len(args.x) - 1, 2 * Len(args.x))
            => ret.val = FromInt(Largest(args.x))
        /\ FLeq(FromInt(Smallest(args.x)), ret.val)

\* C10 witness: q > 1 on an unsorted vector returned the largest sample
ClampedAboveOne ==
    /\ QuantileDone
    /\ FLess(One, args.q)
    /\ ~Ascending(args.x)
    /\ Smallest(args.x) < Largest(args.x)
    /\ ret = Return(FromInt(Largest(args.x)))

(***************************************************************************)
(* Claims about the unique variants.                                       *)
(***************************************************************************)
RECURSIVE Sum(_)
Sum(c) == IF c = <<>> THEN 0 ELSE Head(c) + Sum(Tail(c))

Count(l, v) == Cardinality({i \in 1..Len(l) : l[i] = v})

NoRepeats(r) == \A i, j \in 1..Len(r) : r[i] = r[j] => i = j

\* C3: for a non-empty array v, unique(ndarray) returns, in this order,
\* (a) the distinct values ascending, (b) the first-occurrence index of
\* each, (c) the number of times each appears, (d) the inverse index of
\* each element of v; (c) sums to len(v) and v[i] = distinct[inverse[i]].
UniqueArrayRecord ==
    (pc = "done" /\ op = "unique_array" /\ Len(args.x) >= 1) =>
        /\ ret.kind = "return"
        /\ Len(ret.val) = 4
        /\ LET v == args.x
               a == ret.val[1]
               b == ret.val[2]
               c == ret.val[3]
               d == ret.val[4]
           IN  /\ Range(a) = Range(v)
               /\ \A k \in 1..(Len(a) - 1) : a[k] < a[k + 1]
               /\ Len(b) = Len(a)
               /\ \A k \in 1..Len(a) : b[k] = FirstIndex(v, a[k])
               /\ Len(c) = Len(a)
               /\ \A k \in 1..Len(a) : c[k] = Count(v, a[k])
               /\ Sum(c) = Len(v)
               /\ Len(d) = Len(v)
               /\ \A i \in 1..Len(v) : d[i] \in 0..(Len(a) - 1) /\ v[i] = a[d[i] + 1]

\* what unique(l: list) hands back for the list l: r holds each value of l
\* once, in the order of the first occurrences
FirstOccurrences(l, r) ==
    /\ Range(r) = Range(l)
    /\ NoRepeats(r)
    /\ \A i, j \in 1..Len(r) : i < j => FirstIndex(l, r[i]) < FirstIndex(l, r[j])
    /\ Len(r) <= Len(l)
    /\ uniqueList(r) = Return(r)

\* C6 as stated: for all lists v, unique(v) returns each value of v once,
\* at the position of its first occurrence and in original order, so that
\* len(unique(v)) <= len(v) and unique(unique(v)) = unique(v).
UniqueListOfAnyList ==
    (pc = "done" /\ op = "unique_list") =>
        /\ ret.kind = "return"
        /\ FirstOccurrences(args.x, ret.val)

\* C6 as amended: the same for all non-empty lists v; for the empty list
\* the call fails with an AssertionError.
UniqueListOfNonEmptyList ==
    (pc = "done" /\ op = "unique_list") =>
        IF Len(args.x) >= 1
        THEN ret.kind = "return" /\ ~ret.caught /\ FirstOccurrences(args.x, ret.val)
        ELSE ret = Raise("AssertionError")

\* C6 witness: a list with a repeated value that is not ascending
UniqueListDropped ==
    /\ pc = "done"
    /\ op = "unique_list"
    /\ ret.kind = "return"
    /\ Len(ret.val) >= 2
    /\ Len(ret.val) < Len(args.x)
    /\ ~Ascending(ret.val)
    /\ args.x[1] = args.x[Len(args.x)]

\* C7: for a non-empty list l (of one element type) and n >= 0, unique(l, n)
\* returns a mapping whose keys are the distinct values of l and in which
\* the k-th smallest (k from 0) maps to n + k; the call fails with an
\* AssertionError when l is empty or n < 0.
UniqueRankedMapping ==
    (pc = "done" /\ op = "unique_ranked") =>
        IF Len(args.x) >= 1 /\ args.n >= 0
        THEN Sortable(args.x) =>
                /\ ret.kind = "return"
                /\ ~ret.caught
                /\ DOMAIN ret.val = Range(args.x)
                /\ \A v \in Range(args.x) :
                    ret.val[v] = args.n + Cardinality({w \in Range(args.x) : w < v})
        ELSE ret = Raise("AssertionError")

\* C7 witness: several distinct values, one repeated, ranked from n > 0
UniqueRankedFromOffset ==
    /\ pc = "done"
    /\ op = "unique_ranked"
    /\ args.n > 0
    /\ ret.kind = "return"
    /\ ~ret.caught
    /\ Cardinality(Range(args.x)) >= 2
    /\ Cardinality(Range(args.x)) < Len(args.x)
    /\ ~Ascending(args.x)

(***************************************************************************)
(* Claims about overlap1d and overlap2d.                                   *)
(***************************************************************************)
\* C4: for two non-empty lists v0 and v1 of equal length, overlap1d(v0, v1)
\* returns, in ascending index order, one entry [i, (v0[i], v1[i])] for
\* every position i with v0[i] = v1[i] and no entry for any other position.
Overlap1dEntries ==
    (/\ pc = "done"
     /\ op = "overlap1d"
     /\ Len(args.x) >= 1
     /\ Len(args.x) = Len(args.y)) =>
        /\ ret.kind = "return"
        /\ ~ret.caught
        /\ \A k \in 1..Len(ret.val) :
            /\ ret.val[k][1] \in 0..(Len(args.x) - 1)
            /\ args.x[ret.val[k][1] + 1] = args.y[ret.val[k][1] + 1]
            /\ ret.val[k][2] = <<args.x[ret.val[k][1] + 1], args.y[ret.val[k][1] + 1]>>
        /\ \A k \in 1..(Len(ret.val) - 1) : ret.val[k][1] < ret.val[k + 1][1]
        /\ \A i \in 0..(Len(args.x) - 1) :
            args.x[i + 1] = args.y[i + 1] => \E k \in 1..Len(ret.val) : ret.val[k][1] = i

\* C4 witness: the first position differs and two later positions coincide
Overlap1dTwoEntries ==
    /\ pc = "done"
    /\ op = "overlap1d"
    /\ ret.kind = "return"
    /\ Len(ret.val) >= 2
    /\ Len(ret.val) < Len(args.x)
    /\ args.x[1] # args.y[1]

\* the indices of v whose value occurs in w
IndicesIn(v, w) == {i \in 0..(Len(v) - 1) : v[i + 1] \in Range(w)}

\* idx lists exactly the indices of v whose value occurs in w, each once,
\* in ascending order of the indexed value
MatchedIndices(idx, v, w) ==
    /\ NoRepeats(idx)
    /\ Range(idx) = IndicesIn(v, w)
    /\ Ascending(Take(v, idx))

\* C5: for any two vectors v0 and v1, overlap2d(v0, v1) returns two index
\* sequences, the first with exactly the indices of v0 whose value occurs
\* in v1, the second with exactly the indices of v1 whose value occurs in
\* v0, each in ascending order of the indexed value; both are empty, and no
\* error is raised, when the vectors share no value.
Overlap2dIndices ==
    (pc = "done" /\ op = "overlap2d") =>
        /\ ret.kind = "return"
        /\ ~ret.caught
        /\ MatchedIndices(ret.val[1], args.x, args.y)
        /\ MatchedIndices(ret.val[2], args.y, args.x)
        /\ (Range(args.x) \cap Range(args.y) = {}) =>
            (Len(ret.val[1]) = 0 /\ Len(ret.val[2]) = 0)

\* C5 witness: vectors of different lengths, v0 with a repeated value, some
\* but not all of its indices returned and the first of them not index 0
Overlap2dRepeatedValue ==
    /\ pc = "done"
    /\ op = "overlap2d"
    /\ ret.kind = "return"
    /\ Len(args.x) # Len(args.y)
    /\ Cardinality(Range(args.x)) < Len(args.x)
    /\ Len(ret.val[1]) >= 2
    /\ Len(ret.val[1]) < Len(args.x)
    /\ ret.val[1][1] > 0
    /\ Len(ret.val[2]) >= 1

(***************************************************************************)
(* Claims about failures.                                                  *)
(***************************************************************************)
\* the arguments of the call violate the precondition of op: an empty
\* input, a negative parameter, paired vectors of different lengths
PreconditionViolated ==
    CASE op = "quantile" -> Len(args.x) < 1 \/ args.q[1] < 0
      [] op \in {"prctile", "unique_ranked", "histc"} -> Len(args.x) < 1 \/ args.n < 0
      [] op \in {"unique_list", "unique_array"} -> Len(args.x) < 1
      [] op \in {"overlap1d", "overlap1d_gen"} ->
            Len(args.x) < 1 \/ Len(args.y) < 1 \/ Len(args.x) # Len(args.y)
      [] OTHER -> FALSE

\* C8: for every operation, a call whose arguments violate the operation's
\* precondition fails at the call itself with an error reported to the
\* caller, before any result (the generator of the position variant of
\* overlap1d included) is handed back.
PreconditionsFailTheCall ==
    (pc = "done" /\ PreconditionViolated) => ret.kind = "raise"

\* C9: every call of quantile, prctile, datenum, histc and overlap2d either
\* returns the computed value or fails with an error visible to the caller;
\* no call returns a default in place of a result when the computation
\* inside the call fails.
NoManufacturedDefault ==
    (pc = "done" /\ op \in {"quantile", "prctile", "datenum", "histc", "overlap2d"}) =>
        /\ ret.kind \in {"return", "raise"}
        /\ ~ret.caught

(***************************************************************************)
(* Claims about the position variant of overlap1d.                         *)
(***************************************************************************)
\* the lists of g are non-empty and of equal length
GenValid(g) == Len(g.v0) >= 1 /\ Len(g.v0) = Len(g.v1)

\* r is the ascending list of all positions p with v1[p] = v
AllPositions(r, v, v1) ==
    /\ \A i \in 1..(Len(r) - 1) : r[i] < r[i + 1]
    /\ Range(r) = {p \in 0..(Len(v1) - 1) : v1[p + 1] = v}

\* a next() of the generator g = gen, with the generator other left as it
\* is: the (g.k + 1)-th next yields the positions of v0[g.k] in v1 while
\* g.k < len(v0), and the next after these ends the iteration
NextOfGenerator ==
    (pc = "idle" /\ pc' = "done" /\ op' = "next" /\ GenValid(gen)) =>
        /\ other' = other
        /\ gen'.v0 = gen.v0
        /\ gen'.v1 = gen.v1
        /\ IF gen.k < Len(gen.v0)
           THEN /\ ret'.kind = "yield"
                /\ AllPositions(ret'.val, gen.v0[gen.k + 1], gen.v1)
                /\ gen'.k = gen.k + 1
           ELSE /\ ret' = Raise("StopIteration")
                /\ gen'.state = "finished"

\* a call hands back a generator at the start of the lists it was called
\* with, whatever generator the caller has kept, and leaves that one as it is
CallOfGenerator ==
    (pc = "called" /\ op = "overlap1d_gen" /\ pc' = "done") =>
        /\ other' = other
        /\ gen'.state = "created"
        /\ gen'.k = 0
        /\ gen'.v0 = args.x
        /\ gen'.v1 = args.y

\* C11: for two non-empty equal-length lists v0 and v1, iterating
\* overlap1d(v0, v1, n) produces exactly len(v0) lists, in the order of
\* v0's elements, the k-th being the ascending list of all positions p with
\* v1[p] = v0[k] (empty when v0[k] is not in v1); each separate call
\* produces a fresh sequence, independent of the others.
GeneratorSequence == [][NextOfGenerator /\ CallOfGenerator]_vars

\* C11 witness: two generators of the same lists at different positions,
\* the one just asked having yielded more than one position
TwoGeneratorsApart ==
    /\ pc = "done"
    /\ op = "next"
    /\ ret.kind = "yield"
    /\ Len(ret.val) >= 2
    /\ other.state = "suspended"
    /\ other.v0 = gen.v0
    /\ other.k > gen.k
    /\ GenValid(gen)

(***************************************************************************)
(* Claims about histc.                                                     *)
(***************************************************************************)
\* r is a pair (counts, edges) of b non-negative counts and b + 1 strictly
\* increasing edges
HistogramOf(r, b) ==
    /\ Len(r[1]) = b
    /\ Len(r[2]) = Len(r[1]) + 1
    /\ \A k \in 1..Len(r[1]) : r[1][k] >= 0
    /\ \A k \in 1..(Len(r[2]) - 1) : FLess(r[2][k], r[2][k + 1])

\* C12: for every non-empty numeric vector and every bin count b >= 0,
\* histc returns a pair (counts, edges) with exactly b non-negative counts
\* and b + 1 strictly increasing edges; the call fails with an error when
\* the vector is empty or b < 0.
HistcRecord ==
    (pc = "done" /\ op = "histc") =>
        IF Len(args.x) >= 1 /\ args.n >= 0
        THEN ret.kind = "return" /\ ~ret.caught /\ HistogramOf(ret.val, args.n)
        ELSE ret.kind = "raise"

(***************************************************************************)
(* Claims about tic and toc.                                               *)
(***************************************************************************)
\* the line that shows the elapsed time t (in ticks) as hours, minutes and
\* whole seconds
ShowsElapsed(line, t) ==
    /\ line # NoOut
    /\ line[1] >= 0
    /\ line[2] \in 0..(SecondsPerMinute - 1)
    /\ line[3] \in 0..(SecondsPerMinute - 1)
    /\ (line[1] * SecondsPerHour + line[2] * SecondsPerMinute + line[3]) = t \div TicksPerSecond

\* C13: after any sequence of tic and toc calls, every toc completes
\* without error for every elapsed duration and displays the time elapsed
\* since the most recent tic (since construction when tic was never
\* called).
TocShowsElapsed ==
    (pc = "done" /\ op = "toc") =>
        /\ ret.kind = "return"
        /\ ShowsElapsed(out, clock - m_tic_start)

(***************************************************************************)
(* Claims about dtrange.                                                   *)
(***************************************************************************)
\* a next() of the generator of dtrange for a delta > 0: the value after the
\* last one yielded (start at the first next), in halves of a unit
ValueDue == IF rng.state = "created" THEN 2 * rng.current ELSE 2 * rng.current + rng.delta

\* C14: for every start, end and strictly positive delta, iterating
\* dtrange(start, end, delta) yields exactly the values start + k * delta
\* (k = 0, 1, 2, ...) that are < end, in increasing order and without
\* repetition, and then terminates; it yields nothing when start >= end and
\* never yields end.
DtrangeValues ==
    [][(pc = "idle" /\ pc' = "done" /\ op' = "dtrange_next" /\ rng.delta > 0) =>
        IF ValueDue < 2 * rng.end
        THEN ret'.kind = "yield" /\ 2 * ret'.val = ValueDue
        ELSE ret'.kind = "raise" /\ ret'.val = "StopIteration"]_vars

====
